---------------------------- MODULE Spec2Model ----------------------------
(***************************************************************************)
(* A model of lakesite/ls-governor (governor.go): the ManagerService with  *)
(* its configuration tree and its registry of datastore descriptors, and   *)
(* the operations GetAppProperty, InitDatastore, InitManager and CreateAPI.*)
(*                                                                         *)
(* Identifiers (application names, property names, environment variable    *)
(* names) are sequences of one-character strings, so that the dotted path  *)
(* app + "." + property, its split into keys, and strings.ToUpper are      *)
(* computed rather than looked up.  Values are strings.                    *)
(***************************************************************************)
EXTENDS Naturals, Sequences, FiniteSets, TLC

VARIABLES
    Config,     \* ms.Config: *toml.Tree, [nil, values]
    DBConfig,   \* ms.DBConfig: map[string]*superbase.DBConfig, [nil, entries]
    heap,       \* the superbase.DBConfig structs the registry points to
    env,        \* the process environment
    status,     \* "running", "exited" (log.Fatalf) or "panicked"
    last,       \* the last call made and what it returned
    called,     \* applications InitDatastore was called for since make(map)
    loaded      \* whether some InitManager call has loaded a tree

vars == <<Config, DBConfig, heap, env, status, last, called, loaded>>

---------------------------------------------------------------------------
(* Identifiers *)

shop == <<"s", "h", "o", "p">>
blog == <<"b", "l", "o", "g">>
wiki == <<"w", "i", "k", "i">>

dbserver   == <<"d", "b", "s", "e", "r", "v", "e", "r">>
dbport     == <<"d", "b", "p", "o", "r", "t">>
database   == <<"d", "a", "t", "a", "b", "a", "s", "e">>
dbuser     == <<"d", "b", "u", "s", "e", "r">>
dbpassword == <<"d", "b", "p", "a", "s", "s", "w", "o", "r", "d">>
dbdriver   == <<"d", "b", "d", "r", "i", "v", "e", "r">>
dbpath     == <<"d", "b", "p", "a", "t", "h">>
other      == <<"o", "t", "h", "e", "r">>

\* The applications the callers name; wiki has no section in any file.
Apps == {shop, blog, wiki}

\* The property names InitDatastore pulls, in the order of its assignments,
\* and the descriptor field each is assigned to.
PropNames == <<dbserver, dbport, database, dbuser, dbpassword, dbdriver, dbpath>>

FieldNames == <<"Server", "Port", "Database", "User", "Password", "Driver", "Path">>

\* The properties GetAppProperty is asked for.
Properties == {PropNames[i] : i \in 1..Len(PropNames)} \cup {other}

---------------------------------------------------------------------------
(* strings *)

Dot == "."

Lower == <<"a", "b", "c", "d", "e", "f", "g", "h", "i", "j", "k", "l", "m",
           "n", "o", "p", "q", "r", "s", "t", "u", "v", "w", "x", "y", "z">>

Upper == <<"A", "B", "C", "D", "E", "F", "G", "H", "I", "J", "K", "L", "M",
           "N", "O", "P", "Q", "R", "S", "T", "U", "V", "W", "X", "Y", "Z">>

UpperChar(c) ==
    IF \E i \in 1..Len(Lower) : Lower[i] = c
    THEN Upper[CHOOSE i \in 1..Len(Lower) : Lower[i] = c]
    ELSE c

\* strings.ToUpper
ToUpper(s) == [i \in 1..Len(s) |-> UpperChar(s[i])]

\* strings.Index(s, sep) from position i on, 1-based; 0 when sep is not there
RECURSIVE IndexFrom(_, _, _)
IndexFrom(s, sep, i) ==
    IF i > Len(s) THEN 0
    ELSE IF s[i] = sep THEN i
    ELSE IndexFrom(s, sep, i + 1)

\* strings.Split(key, "."), as toml.Tree.Get splits the path it is given
RECURSIVE Split(_, _)
Split(s, sep) ==
    LET i == IndexFrom(s, sep, 1)
    IN  IF i = 0 THEN <<s>>
        ELSE <<SubSeq(s, 1, i - 1)>> \o Split(SubSeq(s, i + 1, Len(s)), sep)

---------------------------------------------------------------------------
(* The configuration tree (go-toml) *)

StringValue(s) == [kind |-> "string", v |-> s]
IntValue(n)    == [kind |-> "int", v |-> n]
TreeValue(t)   == [kind |-> "tree", v |-> t]
NilValue       == [kind |-> "nil"]

NilTree == [nil |-> TRUE, values |-> <<>>]
Tree(values) == [nil |-> FALSE, values |-> values]

\* toml.Tree.GetPath: nil when a key is missing or an intermediate node is
\* no table; the node's value otherwise.
RECURSIVE GetPath(_, _)
GetPath(values, keys) ==
    IF Len(keys) = 0 THEN TreeValue(values)
    ELSE IF Head(keys) \notin DOMAIN values THEN NilValue
    ELSE LET node == values[Head(keys)]
         IN  IF Len(keys) = 1 THEN node
             ELSE IF node.kind = "tree" THEN GetPath(node.v, Tail(keys))
             ELSE NilValue

\* toml.Tree.Get(key) on a non-nil tree
Get(tree, key) ==
    IF key = <<>> THEN TreeValue(tree.values)
    ELSE GetPath(tree.values, Split(key, Dot))

---------------------------------------------------------------------------
(* The file system InitManager reads: what os.Stat and toml.LoadFile see *)

ShopSqlite ==
    (dbdriver :> StringValue("sqlite3")) @@ (dbpath :> StringValue("shop.db"))

BlogFull ==
    (dbserver :> StringValue("db1")) @@ (dbport :> StringValue("5432")) @@
    (database :> StringValue("blog")) @@ (dbuser :> StringValue("bob")) @@
    (dbpassword :> StringValue("secret")) @@ (dbdriver :> StringValue("postgres")) @@
    (dbpath :> StringValue("blog.db"))

ShopServer ==
    (dbserver :> StringValue("db2")) @@ (dbport :> StringValue("5433")) @@
    (database :> StringValue(""))

BlogSqlite ==
    (dbdriver :> StringValue("sqlite3")) @@ (dbpath :> StringValue("blog.db")) @@
    (other :> StringValue("settings..."))

ShopTyped ==
    (dbserver :> StringValue("db1")) @@ (dbport :> IntValue(5432)) @@
    (dbdriver :> StringValue("postgres")) @@
    (dbpath :> TreeValue((other :> StringValue("nested"))))

\* path |-> whether the file exists, whether it parses, and the tree it holds
File(exists, parses, values) ==
    [exists |-> exists, parses |-> parses, values |-> values]

Files ==
    ("config.toml" :> File(TRUE, TRUE,
        (shop :> TreeValue(ShopSqlite)) @@ (blog :> TreeValue(BlogFull)))) @@
    ("changed.toml" :> File(TRUE, TRUE,
        (shop :> TreeValue(ShopServer)) @@ (blog :> TreeValue(BlogSqlite)))) @@
    ("typed.toml" :> File(TRUE, TRUE,
        (shop :> TreeValue(ShopTyped)) @@ (blog :> TreeValue(BlogSqlite)))) @@
    ("broken.toml" :> File(TRUE, FALSE, <<>>)) @@
    ("missing.toml" :> File(FALSE, FALSE, <<>>))

Paths == DOMAIN Files

\* os.Stat(cfgfile) followed by os.IsNotExist(err)
IsNotExist(cfgfile) == ~Files[cfgfile].exists

\* toml.LoadFile(cfgfile) with its error dropped: a nil tree when the file
\* does not parse.
LoadFile(cfgfile) ==
    IF Files[cfgfile].parses THEN Tree(Files[cfgfile].values) ELSE NilTree

---------------------------------------------------------------------------
(* The registry and its descriptors *)

NilPtr == 0

\* dbc.Connection == nil, and a handle: the descriptor it was opened with
NilConnection == [set |-> FALSE, opened |-> <<>>]

Connection(opened) == [set |-> TRUE, opened |-> opened]

\* &superbase.DBConfig{}
ZeroDBConfig ==
    [Server |-> "", Port |-> "", Database |-> "", User |-> "", Password |-> "",
     Driver |-> "", Path |-> "", Connection |-> NilConnection]

NilMap == [nil |-> TRUE, entries |-> <<>>]

\* make(map[string]*superbase.DBConfig)
MakeMap == [nil |-> FALSE, entries |-> <<>>]

\* ms.DBConfig[app], read: nil for a missing key, and for a nil map
Lookup(db, app) ==
    IF app \in DOMAIN db.entries THEN db.entries[app] ELSE NilPtr

\* a pointer no live descriptor has
Alloc(hp) == CHOOSE p \in 1..(Cardinality(DOMAIN hp) + 1) : p \notin DOMAIN hp

FieldsOf(d) == [i \in 1..Len(FieldNames) |-> d[FieldNames[i]]]

---------------------------------------------------------------------------
(* GetAppProperty *)

NoError == [nil |-> TRUE, property |-> <<>>, app |-> <<>>]

\* fmt.Errorf("Configuration missing '%s' section under [%s] heading.\n",
\*            property, app)
Errorf(property, app) == [nil |-> FALSE, property |-> property, app |-> app]

\* Faulty variant of GetAppProperty: a missing property is answered with ""
\* and no error.
GetAppPropertySilent(cfg, app, property) ==
    IF cfg.nil
    THEN [panic |-> "nil pointer dereference", val |-> "", err |-> NoError]
    ELSE LET v == Get(cfg, app \o <<Dot>> \o property)
         IN  IF v.kind # "nil"
             THEN IF v.kind = "string"
                  THEN [panic |-> "", val |-> v.v, err |-> NoError]
                  ELSE [panic |-> "interface conversion", val |-> "", err |-> NoError]
             ELSE [panic |-> "", val |-> "", err |-> NoError]

\* The outcome of ms.GetAppProperty(app, property) with ms.Config = cfg: the
\* pair it returns, or the run-time panic that ends the call.
GetAppProperty(cfg, app, property) ==
    IF cfg.nil
    THEN [panic |-> "nil pointer dereference", val |-> "", err |-> NoError]
    ELSE LET v == Get(cfg, app \o <<Dot>> \o property)
         IN  IF v.kind # "nil"
             THEN IF v.kind = "string"
                  THEN [panic |-> "", val |-> v.v, err |-> NoError]
                  ELSE [panic |-> "interface conversion", val |-> "", err |-> NoError]
             ELSE [panic |-> "", val |-> "", err |-> Errorf(property, app)]

---------------------------------------------------------------------------
(* InitDatastore *)

\* What the seven lookups of lines 53-59 return, in the order they are made.
Pulls(cfg, app) ==
    << GetAppProperty(cfg, app, dbserver),
       GetAppProperty(cfg, app, dbport),
       GetAppProperty(cfg, app, database),
       GetAppProperty(cfg, app, dbuser),
       GetAppProperty(cfg, app, dbpassword),
       GetAppProperty(cfg, app, dbdriver),
       GetAppProperty(cfg, app, dbpath) >>

\* The first of the lookups r that panics; Len(r) + 1 when none does.
PanicAt(r) ==
    IF \E i \in 1..Len(r) : r[i].panic # ""
    THEN CHOOSE i \in 1..Len(r) :
             r[i].panic # "" /\ \A j \in 1..(i - 1) : r[j].panic = ""
    ELSE Len(r) + 1

\* Faulty variant of PullConfig: the last assignment (Path) is left out.
PullConfigSix(r, d) ==
    LET n == IF PanicAt(r) > Len(r) THEN Len(r) ELSE PanicAt(r)
    IN  [f \in DOMAIN d |->
            IF \E i \in 1..(n - 1) : FieldNames[i] = f
            THEN r[CHOOSE i \in 1..(n - 1) : FieldNames[i] = f].val
            ELSE d[f]]

\* "pull in the database config to DBConfig struct": the seven assignments
\* field, _ = ms.GetAppProperty(app, name) with the lookups' results r, in
\* order, up to the first lookup that panics.  An assignment stores what the
\* lookup returned, which is "" when the property is missing.
PullConfig(r, d) ==
    LET n == PanicAt(r)
    IN  [f \in DOMAIN d |->
            IF \E i \in 1..(n - 1) : FieldNames[i] = f
            THEN r[CHOOSE i \in 1..(n - 1) : FieldNames[i] = f].val
            ELSE d[f]]

\* superbase.DBConfig.Init(): the storage engine is asked for a connection
\* with the descriptor; the handle is set when the engine accepts and is
\* unset otherwise.  Whether the engine accepts is the engine's choice.
DBConfigInit(d, accepted) ==
    [d EXCEPT !.Connection =
        IF accepted THEN Connection(FieldsOf(d)) ELSE NilConnection]

\* The outcome of ms.InitDatastore(app): the registry and the descriptors
\* afterwards, the flag returned (ret, when the call returns), the panic
\* that ends the call otherwise, what the engine answered, and for the
\* record the descriptor the call started from (before; fresh when it made
\* one).
InitDatastore(cfg, db, hp, app, accepted) ==
    IF db.nil
    THEN [DBConfig |-> db, heap |-> hp, ret |-> FALSE, engine |-> "none",
          panic |-> "assignment to entry in nil map", before |-> ZeroDBConfig,
          fresh |-> TRUE]
    ELSE LET fresh == Lookup(db, app) = NilPtr
             p  == IF fresh THEN Alloc(hp) ELSE Lookup(db, app)
             d0 == IF fresh THEN ZeroDBConfig ELSE hp[p]
             db1 == [db EXCEPT !.entries = (app :> p) @@ @]
             r  == Pulls(cfg, app)
             n  == PanicAt(r)
             d1 == PullConfig(r, d0)
             success == TRUE
         IN  IF n <= Len(PropNames)
             THEN [DBConfig |-> db1, heap |-> (p :> d1) @@ hp, ret |-> FALSE,
                   engine |-> "none", before |-> d0, fresh |-> fresh,
                   panic |-> r[n].panic]
             ELSE [DBConfig |-> db1,
                   heap |-> (p :> DBConfigInit(d1, accepted)) @@ hp,
                   ret |-> success,
                   engine |-> IF accepted THEN "connected" ELSE "failed",
                   before |-> d0, fresh |-> fresh, panic |-> ""]

---------------------------------------------------------------------------
(* InitManager *)

\* Faulty variant of InitManager: a registry that exists is kept on reload.
InitManagerKeepRegistry(cfg, db, hp, cfgfile) ==
    IF IsNotExist(cfgfile)
    THEN [Config |-> cfg, DBConfig |-> db, heap |-> hp, fatal |-> TRUE]
    ELSE [Config |-> LoadFile(cfgfile),
          DBConfig |-> IF db.nil THEN MakeMap ELSE db,
          heap |-> hp, fatal |-> FALSE]

\* Faulty variant of InitManager: the registry is made before the file is
\* looked for.
InitManagerMakeFirst(cfg, db, hp, cfgfile) ==
    IF IsNotExist(cfgfile)
    THEN [Config |-> cfg, DBConfig |-> MakeMap, heap |-> <<>>, fatal |-> TRUE]
    ELSE [Config |-> LoadFile(cfgfile), DBConfig |-> MakeMap, heap |-> <<>>,
          fatal |-> FALSE]

\* The outcome of ms.InitManager(cfgfile): log.Fatalf (fatal) when the file
\* does not exist; otherwise the loaded tree, nil if the load failed, and a
\* new empty registry.
InitManager(cfg, db, hp, cfgfile) ==
    IF IsNotExist(cfgfile)
    THEN [Config |-> cfg, DBConfig |-> db, heap |-> hp, fatal |-> TRUE]
    ELSE [Config |-> LoadFile(cfgfile), DBConfig |-> MakeMap, heap |-> <<>>,
          fatal |-> FALSE]

---------------------------------------------------------------------------
(* CreateAPI *)

HostSuffix == <<"_", "H", "O", "S", "T">>
PortSuffix == <<"_", "P", "O", "R", "T">>

DefaultHost == "127.0.0.1"
DefaultPort == "7990"

\* config.Getenv(key, fallback): the variable's value, the fallback when
\* it is unset
Getenv(e, key, fallback) == IF key \in DOMAIN e THEN e[key] ELSE fallback

\* fibre.NewWebService(app, address)
NewWebService(app, address) == [app |-> app, address |-> address]

NewAPI(ws, ms) == [WebService |-> ws, ManagerService |-> ms]

NoAPI == NewAPI(NewWebService(<<>>, ""), "")

\* Faulty variant of CreateAPI: the application name is not upper-cased.
CreateAPINoUpper(e, app) ==
    LET ua == app
        address == Getenv(e, ua \o HostSuffix, DefaultHost) \o ":"
                       \o Getenv(e, ua \o PortSuffix, DefaultPort)
        ws == NewWebService(app, address)
    IN  NewAPI(ws, "ms")

\* ms.CreateAPI(app) in environment e
CreateAPI(e, app) ==
    LET ua == ToUpper(app)
        address == Getenv(e, ua \o HostSuffix, DefaultHost) \o ":"
                       \o Getenv(e, ua \o PortSuffix, DefaultPort)
        ws == NewWebService(app, address)
    IN  NewAPI(ws, "ms")

---------------------------------------------------------------------------
(* The state machine: a caller that makes the calls, one at a time, and an *)
(* environment whose variables change between calls                        *)

NoCall ==
    [op |-> "", app |-> <<>>, property |-> <<>>, path |-> "", val |-> "",
     err |-> NoError, ret |-> FALSE, api |-> NoAPI, panic |-> "",
     engine |-> "none", again |-> FALSE, hadConnection |-> FALSE]

\* the variables set, and the values they are set to
EnvKeys ==
    {ToUpper(shop) \o HostSuffix, ToUpper(shop) \o PortSuffix,
     ToUpper(blog) \o HostSuffix, ToUpper(blog) \o PortSuffix}

EnvValues == {"0.0.0.0", "9000"}

\* gms := &governor.ManagerService{}
Init ==
    /\ Config = NilTree
    /\ DBConfig = NilMap
    /\ heap = <<>>
    /\ env = <<>>
    /\ status = "running"
    /\ last = NoCall
    /\ called = {}
    /\ loaded = FALSE

CallGetAppProperty(app, property) ==
    /\ status = "running"
    /\ LET r == GetAppProperty(Config, app, property)
       IN  /\ last' = [NoCall EXCEPT !.op = "GetAppProperty", !.app = app,
                           !.property = property, !.val = r.val,
                           !.err = r.err, !.panic = r.panic]
           /\ status' = IF r.panic # "" THEN "panicked" ELSE status
    /\ UNCHANGED <<Config, DBConfig, heap, env, called, loaded>>

CallInitDatastore(app) ==
    /\ status = "running"
    /\ \E accepted \in BOOLEAN :
         LET r == InitDatastore(Config, DBConfig, heap, app, accepted)
         IN  /\ DBConfig' = r.DBConfig
             /\ heap' = r.heap
             /\ last' = [NoCall EXCEPT !.op = "InitDatastore", !.app = app,
                             !.ret = r.ret, !.panic = r.panic,
                             !.engine = r.engine, !.again = ~r.fresh,
                             !.hadConnection = r.before.Connection.set]
             /\ status' = IF r.panic # "" THEN "panicked" ELSE status
    /\ called' = IF DBConfig.nil THEN called ELSE called \cup {app}
    /\ UNCHANGED <<Config, env, loaded>>

CallInitManager(cfgfile) ==
    /\ status = "running"
    /\ LET r == InitManager(Config, DBConfig, heap, cfgfile)
       IN  /\ Config' = r.Config
           /\ DBConfig' = r.DBConfig
           /\ heap' = r.heap
           /\ status' = IF r.fatal THEN "exited" ELSE status
           /\ called' = IF r.fatal THEN called ELSE {}
           /\ loaded' = (loaded \/ (~r.fatal /\ ~r.Config.nil))
    /\ last' = [NoCall EXCEPT !.op = "InitManager", !.path = cfgfile]
    /\ UNCHANGED env

CallCreateAPI(app) ==
    /\ status = "running"
    /\ last' = [NoCall EXCEPT !.op = "CreateAPI", !.app = app,
                    !.api = CreateAPI(env, app)]
    /\ UNCHANGED <<Config, DBConfig, heap, env, status, called, loaded>>

Setenv(key, value) ==
    /\ status = "running"
    /\ env' = (key :> value) @@ env
    /\ last' = [NoCall EXCEPT !.op = "Setenv"]
    /\ UNCHANGED <<Config, DBConfig, heap, status, called, loaded>>

Unsetenv(key) ==
    /\ status = "running"
    /\ key \in DOMAIN env
    /\ env' = [k \in DOMAIN env \ {key} |-> env[k]]
    /\ last' = [NoCall EXCEPT !.op = "Unsetenv"]
    /\ UNCHANGED <<Config, DBConfig, heap, status, called, loaded>>

\* the calls on the manager's configuration and registry
NextManager ==
    \/ \E app \in Apps, property \in Properties : CallGetAppProperty(app, property)
    \/ \E app \in Apps : CallInitDatastore(app)
    \/ \E cfgfile \in Paths : CallInitManager(cfgfile)

\* the calls that compose a service, and the environment they read
NextAPI ==
    \/ \E app \in Apps : CallCreateAPI(app)
    \/ \E key \in EnvKeys, value \in EnvValues : Setenv(key, value)
    \/ \E key \in EnvKeys : Unsetenv(key)

Next == NextManager \/ NextAPI

Spec == Init /\ [][Next]_vars

\* CreateAPI reads the environment alone and the other calls never read it:
\* the two halves are explored apart.
SpecManager == Init /\ [][NextManager]_vars

SpecAPI == Init /\ [][NextAPI]_vars

---------------------------------------------------------------------------
(* What a loaded configuration holds, read off the tree without the lookup *)
(* path of toml.Tree.Get                                                   *)

\* section [a] holds key k
Present(cfg, a, k) ==
    /\ ~cfg.nil
    /\ a \in DOMAIN cfg.values
    /\ cfg.values[a].kind = "tree"
    /\ k \in DOMAIN cfg.values[a].v

\* section [a] holds a string under key k
PresentString(cfg, a, k) ==
    Present(cfg, a, k) /\ cfg.values[a].v[k].kind = "string"

\* the seven field values the configuration gives application a: the string
\* under each property name, and "" for a property the section lacks
Configured(cfg, a) ==
    [i \in 1..Len(PropNames) |->
        IF PresentString(cfg, a, PropNames[i])
        THEN cfg.values[a].v[PropNames[i]].v
        ELSE ""]

\* the descriptor the registry holds for a registered application
Descriptor(a) == heap[DBConfig.entries[a]]

Registered(a) == a \in DOMAIN DBConfig.entries

Empty == [i \in 1..Len(PropNames) |-> ""]

---------------------------------------------------------------------------
(* C1 *)

\* C1: on a manager whose configuration is loaded, GetAppProperty(A, k)
\* returns (v, nil) when section [A] holds the string v under k, and ("",
\* not-found error naming k and A) when k is absent from section A; the call
\* changes neither Config nor DBConfig (nor any descriptor).
C1_GetAppProperty ==
    [][(last'.op = "GetAppProperty" /\ ~Config.nil) =>
          LET a == last'.app
              k == last'.property
          IN  /\ PresentString(Config, a, k) =>
                    /\ last'.panic = ""
                    /\ last'.err = NoError
                    /\ last'.val = Config.values[a].v[k].v
              /\ ~Present(Config, a, k) =>
                    /\ last'.panic = ""
                    /\ last'.err = Errorf(k, a)
                    /\ last'.val = ""
              /\ Config' = Config
              /\ DBConfig' = DBConfig
              /\ heap' = heap]_vars

\* a lookup of a configured string was answered while the registry holds a
\* descriptor
C1_Witness ==
    /\ last.op = "GetAppProperty"
    /\ last.app = shop
    /\ last.property = dbdriver
    /\ last.val = "sqlite3"
    /\ last.err = NoError
    /\ Registered(shop)

---------------------------------------------------------------------------
(* C2 *)

\* C2: when the path A.k is present in the loaded configuration with a value
\* that is no string, GetAppProperty(A, k) returns the not-found error that
\* carries A and k; it neither returns a value nor aborts.
C2_NonStringIsNotFound ==
    (/\ last.op = "GetAppProperty"
     /\ Present(Config, last.app, last.property)
     /\ ~PresentString(Config, last.app, last.property))
    => (/\ last.panic = ""
        /\ status = "running"
        /\ last.err = Errorf(last.property, last.app))

---------------------------------------------------------------------------
(* C3 *)

---------------------------------------------------------------------------
(* C4 *)

\* C4: once the registry exists, DBConfig[A] is nil exactly when
\* InitDatastore(A) has not been called since the registry was made; and an
\* application whose call did not establish a connection has a descriptor
\* whose connection handle is unset.
C4_RegisteredIffCalled ==
    ~DBConfig.nil =>
        /\ \A a \in Apps : (Lookup(DBConfig, a) = NilPtr) <=> (a \notin called)
        /\ \A a \in DOMAIN DBConfig.entries : DBConfig.entries[a] \in DOMAIN heap
        /\ (last.op = "InitDatastore" /\ last.engine # "connected") =>
              /\ Lookup(DBConfig, last.app) # NilPtr
              /\ Descriptor(last.app).Connection = NilConnection

\* one application registered without a connection, another never registered
C4_Witness ==
    /\ ~DBConfig.nil
    /\ last.op = "InitDatastore"
    /\ last.app = wiki
    /\ last.engine = "failed"
    /\ Registered(wiki)
    /\ ~Descriptor(wiki).Connection.set
    /\ Lookup(DBConfig, blog) = NilPtr
    /\ Registered(shop)
    /\ Descriptor(shop).Connection.set

---------------------------------------------------------------------------
(* C5 *)

SHOP == <<"S", "H", "O", "P">>
BLOG == <<"B", "L", "O", "G">>
WIKI == <<"W", "I", "K", "I">>

\* the upper-cased application identifier, written out
UpperCased(a) == CASE a = shop -> SHOP [] a = blog -> BLOG [] a = wiki -> WIKI

\* host:port from <A>_HOST and <A>_PORT, each defaulted on its own
Address(e, a) ==
    LET hostvar == UpperCased(a) \o <<"_", "H", "O", "S", "T">>
        portvar == UpperCased(a) \o <<"_", "P", "O", "R", "T">>
        host == IF hostvar \in DOMAIN e THEN e[hostvar] ELSE "127.0.0.1"
        port == IF portvar \in DOMAIN e THEN e[portvar] ELSE "7990"
    IN  host \o ":" \o port

\* C5: CreateAPI(A) binds the service to host:port, host the value of
\* UPPER(A)_HOST if set and 127.0.0.1 otherwise, port the value of
\* UPPER(A)_PORT if set and 7990 otherwise; whatever the environment was at
\* earlier calls, the address is that of the environment at this call, which
\* the call leaves as it is, and the handle refers to the shared manager.
C5_Address ==
    [][last'.op = "CreateAPI" =>
          /\ last'.api.WebService.address = Address(env, last'.app)
          /\ last'.api.WebService.app = last'.app
          /\ last'.api.ManagerService = "ms"
          /\ env' = env]_vars

\* SHOP_PORT=9000 and no SHOP_HOST: 127.0.0.1:9000
C5_Witness ==
    /\ last.op = "CreateAPI"
    /\ last.app = shop
    /\ (SHOP \o <<"_", "P", "O", "R", "T">>) \in DOMAIN env
    /\ (SHOP \o <<"_", "H", "O", "S", "T">>) \notin DOMAIN env
    /\ last.api.WebService.address = "127.0.0.1:9000"

---------------------------------------------------------------------------
(* C6 *)

\* C6 as claimed: InitManager with a path that does not exist returns to its
\* caller (with an error), the manager as it was.
C6_ReturnsError ==
    (last.op = "InitManager" /\ ~Files[last.path].exists) => status = "running"

\* C6 as the code has it: InitManager with a path that does not exist ends
\* the process (log.Fatalf) and returns nothing to its caller; Config and
\* every registry entry are what they were before the call.
C6_FatalUnchanged ==
    [][(last'.op = "InitManager" /\ ~Files[last'.path].exists) =>
          /\ status' = "exited"
          /\ Config' = Config
          /\ DBConfig' = DBConfig
          /\ heap' = heap]_vars

\* the process ended on a missing file, a loaded manager with a registered
\* application left as it was
C6_Witness ==
    /\ last.op = "InitManager"
    /\ last.path = "missing.toml"
    /\ status = "exited"
    /\ ~Config.nil
    /\ Registered(shop)
    /\ Descriptor(shop).Driver = "sqlite3"

---------------------------------------------------------------------------
(* C7 *)

\* C7: in no reachable state is the registry initialized while the
\* configuration tree is not loaded.
C7_NeverPartiallyConfigured == ~DBConfig.nil => ~Config.nil

---------------------------------------------------------------------------
(* C8 *)

\* C8: InitDatastore(A) reports failure whenever the engine failed to
\* establish the connection, and reports success only when the connection
\* handle was set.
C8_PropagatesOutcome ==
    (last.op = "InitDatastore" /\ last.panic = "") =>
        /\ last.engine = "failed" => ~last.ret
        /\ last.ret => Descriptor(last.app).Connection.set

---------------------------------------------------------------------------
(* C9 *)

\* C9: on a configured manager, InitDatastore(A) leaves the descriptor of
\* every other application and the Config tree unchanged, stores for A a
\* descriptor object no other application has, and returns, so that the
\* caller goes on to register the others.
C9_Independent ==
    [][(last'.op = "InitDatastore" /\ ~DBConfig.nil /\ ~Config.nil) =>
          /\ Config' = Config
          /\ \A b \in Apps \ {last'.app} :
                /\ Lookup(DBConfig', b) = Lookup(DBConfig, b)
                /\ Lookup(DBConfig, b) # NilPtr =>
                      heap'[Lookup(DBConfig', b)] = heap[Lookup(DBConfig, b)]
          /\ \A b \in DOMAIN DBConfig'.entries \ {last'.app} :
                DBConfig'.entries[b] # DBConfig'.entries[last'.app]
          /\ last'.panic = ""
          /\ status' = "running"]_vars

---------------------------------------------------------------------------
(* C10 *)

AllEmpty(d) == FieldsOf(d) = Empty

\* C10: before a successful InitManager, a configuration query fails (a
\* GetAppProperty call returns no value without an error), and no descriptor
\* with all seven fields empty is left in the registry.
C10_QueriesBeforeLoadFail ==
    ~loaded =>
        /\ last.op = "GetAppProperty" => (last.panic # "" \/ last.err # NoError)
        /\ \A a \in DOMAIN DBConfig.entries : ~AllEmpty(Descriptor(a))

=============================================================================
